---- MODULE Spec2Model ----
(***************************************************************************)
(* Duck Machine DM2022 CPU (src/DuckMachineCPU/cpu/cpu.py): the ALU, the   *)
(* fetch/decode/execute step and the run loop.  The register, memory,      *)
(* instruction-format and listener classes the CPU imports are not part   *)
(* of the sources at hand; they are modelled from the specification.     *)
(***************************************************************************)
EXTENDS Integers, Sequences, FiniteSets, TLC

VARIABLES registers,   \* CPU.registers: the value held by each of the 16 cells
          memory,      \* the attached Memory: address -> word
          condition,   \* CPU.condition: a CondFlag value
          halted,      \* CPU.halted
          inRun,       \* control is inside the while loop of CPU.run
          step_count,  \* the local step_count of CPU.run
          notified,    \* the CPUStep events broadcast by the latest step call
          alu,         \* the latest call of ALU.exec: inputs and what came back
          last,        \* the latest call on the CPU and the state it started from
          prev,        \* the call before that one
          lb           \* the anagram finder: the call on a LetterBag or of search

vars == <<registers, memory, condition, halted, inRun, step_count, notified, alu,
          last, prev, lb>>

----------------------------------------------------------------------------
(* Bounds of the model *)

MemSize == 3            \* addresses 0 .. MemSize-1 are modelled
MaxSteps == 4           \* steps followed inside one call of run
AddLimit == 536870912   \* operand magnitude followed for + and - (TLC integers)
MulLimit == 16384       \* operand magnitude followed for *
MaxOperand == 4         \* operands -MaxOperand..MaxOperand given directly to the ALU
MaxCands == 3           \* length of the candidate list given to search
MaxLimit == 2           \* limits 0..MaxLimit given to search

Addrs == 0 .. (MemSize - 1)
PutVals == {3}          \* values a test harness puts into a register beforehand

----------------------------------------------------------------------------
(* instruction_set.instr_format: condition flags, opcodes, decode *)

CondM == 1
CondZ == 2
CondP == 4
CondV == 8
CondALWAYS == 15
CondNEVER == 0

RuntimeFlags == {CondZ, CondM, CondP, CondV}

OpHALT == 0
OpLOAD == 1
OpSTORE == 2
OpADD == 3
OpSUB == 5
OpMUL == 6
OpDIV == 7

TableOps == {OpADD, OpSUB, OpMUL, OpDIV, OpLOAD, OpSTORE, OpHALT}

Pow2(n) == IF n = 0 THEN 1
           ELSE IF n = 4 THEN 16
           ELSE IF n = 12 THEN 4096
           ELSE IF n = 16 THEN 65536
           ELSE IF n = 20 THEN 1048576
           ELSE IF n = 24 THEN 16777216
           ELSE 268435456

\* bits lo .. lo+width-1 of word, as Python's (word >> lo) & (2**width - 1)
Field(word, lo, width) == (word \div Pow2(lo)) % Pow2(width)

\* two's-complement reading of a 12-bit field
SignExtend12(f) == IF f >= 2048 THEN f - 4096 ELSE f

decode(word) ==
    [op         |-> Field(word, 28, 4),
     cond       |-> Field(word, 24, 4),
     reg_target |-> Field(word, 20, 4),
     reg_src1   |-> Field(word, 16, 4),
     reg_src2   |-> Field(word, 12, 4),
     offset     |-> SignExtend12(Field(word, 0, 12))]

\* the word an assembler emits for an instruction: the layout decode reads
encode(i) ==
    i.op * Pow2(28) + i.cond * Pow2(24) + i.reg_target * Pow2(20)
    + i.reg_src1 * Pow2(16) + i.reg_src2 * Pow2(12) + (i.offset % 4096)

Instr(op, cond, t, s1, s2, off) ==
    [op |-> op, cond |-> cond, reg_target |-> t,
     reg_src1 |-> s1, reg_src2 |-> s2, offset |-> off]

\* bitwise AND of two 4-bit flag values (Flag.__and__)
BitAnd4(a, b) ==
    LET bit(v, k) == (v \div (IF k = 0 THEN 1 ELSE IF k = 1 THEN 2
                              ELSE IF k = 2 THEN 4 ELSE 8)) % 2
    IN  bit(a, 0) * bit(b, 0) + 2 * bit(a, 1) * bit(b, 1)
        + 4 * bit(a, 2) * bit(b, 2) + 8 * bit(a, 3) * bit(b, 3)

----------------------------------------------------------------------------
(* cpu.register and cpu.memory *)

NumRegisters == 16
PC == 15

RegIdx == 0 .. (NumRegisters - 1)

\* variant: a plain Register at index 0 as well
IsZeroRegister_None(i) == FALSE

\* CPU.__init__: a ZeroRegister at index 0, a Register at every other index
IsZeroRegister(i) == i = 0

\* Register.get / ZeroRegister.get
RegGet(regs, i) == IF IsZeroRegister(i) THEN 0 ELSE regs[i]

\* Register.put / ZeroRegister.put (the zero register discards the value)
RegPut(regs, i, v) == IF IsZeroRegister(i) THEN regs ELSE [regs EXCEPT ![i] = v]

MemGet(mem, a) == mem[a]
MemPut(mem, a, v) == [mem EXCEPT ![a] = v]

----------------------------------------------------------------------------
(* ALU *)

Abs(v) == IF v < 0 THEN -v ELSE v

\* variant: DIV rounds toward zero (C-style /) instead of flooring
ALU_OPS_TruncDiv(op, x, y) ==
    IF op \notin {OpADD, OpSUB, OpMUL, OpDIV, OpLOAD, OpSTORE, OpHALT}
    THEN [raises |-> TRUE, val |-> 0]
    ELSE IF op = OpADD \/ op = OpLOAD \/ op = OpSTORE
    THEN [raises |-> FALSE, val |-> x + y]
    ELSE IF op = OpSUB THEN [raises |-> FALSE, val |-> x - y]
    ELSE IF op = OpMUL THEN [raises |-> FALSE, val |-> x * y]
    ELSE IF op = OpDIV THEN
        (IF y = 0 THEN [raises |-> TRUE, val |-> 0]
         ELSE [raises |-> FALSE,
               val |-> IF (x < 0) = (y < 0)
                       THEN Abs(x) \div Abs(y)
                       ELSE -(Abs(x) \div Abs(y))])
    ELSE [raises |-> FALSE, val |-> 0]

\* ALU.ALU_OPS[op](x, y): the value, or the exception the lookup or the
\* lambda raises (KeyError for a code not in the table, ZeroDivisionError)
ALU_OPS(op, x, y) ==
    IF op \notin TableOps THEN [raises |-> TRUE, val |-> 0]
    ELSE IF op = OpADD THEN [raises |-> FALSE, val |-> x + y]
    ELSE IF op = OpSUB THEN [raises |-> FALSE, val |-> x - y]
    ELSE IF op = OpMUL THEN [raises |-> FALSE, val |-> x * y]
    ELSE IF op = OpDIV THEN
        (IF y = 0 THEN [raises |-> TRUE, val |-> 0]
         ELSE [raises |-> FALSE, val |-> x \div y])
    ELSE IF op = OpLOAD THEN [raises |-> FALSE, val |-> x + y]
    ELSE IF op = OpSTORE THEN [raises |-> FALSE, val |-> x + y]
    ELSE [raises |-> FALSE, val |-> 0]

\* the if/elif/else of ALU.exec
FlagOf(sol) == IF sol = 0 THEN CondZ ELSE IF sol < 0 THEN CondM ELSE CondP

\* variant: no except clause, the exception reaches the caller
ALU_exec_NoExcept(op, in1, in2) ==
    LET r == ALU_OPS(op, in1, in2)
    IN  IF r.raises
        THEN [raised |-> TRUE, result |-> 0, flag |-> CondV]
        ELSE [raised |-> FALSE, result |-> r.val, flag |-> FlagOf(r.val)]

\* ALU.exec: the try body, and the bare except that answers (0, V)
ALU_exec(op, in1, in2) ==
    LET r == ALU_OPS(op, in1, in2)
    IN  IF r.raises
        THEN [raised |-> FALSE, result |-> 0, flag |-> CondV]
        ELSE [raised |-> FALSE, result |-> r.val, flag |-> FlagOf(r.val)]

\* operands whose arithmetic TLC's integers can follow
InArithRange(op, x, y) ==
    IF op = OpMUL THEN Abs(x) <= MulLimit /\ Abs(y) <= MulLimit
    ELSE Abs(x) <= AddLimit /\ Abs(y) <= AddLimit

----------------------------------------------------------------------------
(* CPU.step *)

\* the CPU state a listener can read through the event's subject
Snapshot(regs, mem, cond, hal) ==
    [registers |-> regs, memory |-> mem, condition |-> cond, halted |-> hal]

\* CPUStep.__init__(subject, pc_addr, instr_word, instr)
CPUStep(subject, pc_addr, instr_word, instr) ==
    [subject |-> subject, pc_addr |-> pc_addr,
     instr_word |-> instr_word, instr |-> instr]

\* Fetch: the two locals of step, under the names the code gives them
Fetch(regs, mem) ==
    LET instr_word == RegGet(regs, PC)
        instr_addr == MemGet(mem, instr_word)
    IN  [instr_word |-> instr_word, instr_addr |-> instr_addr]

\* self.notify_all(CPUStep(self, instr_addr, instr_word, instr))
StepEvent(regs, mem, cond, hal) ==
    LET f == Fetch(regs, mem)
    IN  CPUStep(Snapshot(regs, mem, cond, hal),
                f.instr_addr, f.instr_word, decode(f.instr_addr))

\* result = self.condition & instr.cond
ConditionTest(cond, instr) == BitAnd4(cond, instr.cond)

LeftOperand(regs, instr) == RegGet(regs, instr.reg_src1)

\* variant: the offset is not added to the right operand
RightOperand_NoOffset(regs, instr) == RegGet(regs, instr.reg_src2)

RightOperand(regs, instr) == RegGet(regs, instr.reg_src2) + instr.offset

\* variant: the counter is computed and never put back
AdvancePC_Stuck(regs) == regs

\* counter = self.registers[15].get() + 1; self.registers[15].put(counter)
AdvancePC(regs) == RegPut(regs, PC, RegGet(regs, PC) + 1)

\* variant: the test of the V flag is missing
HaltedAfter_NoFaultHalt(hal, instr, new_cond) ==
    IF instr.op = OpHALT THEN TRUE ELSE hal

\* variant: every executed instruction halts
HaltedAfter_Always(hal, instr, new_cond) == TRUE

\* variant: halted is assigned afresh by every executed instruction
HaltedAfter_Recomputed(hal, instr, new_cond) ==
    new_cond = CondV \/ instr.op = OpHALT

\* halted after an executed instruction: the V test, then the HALT branch
HaltedAfter(hal, instr, new_cond) ==
    IF new_cond = CondV THEN TRUE
    ELSE IF instr.op = OpHALT THEN TRUE
    ELSE hal

\* variant: no LOAD branch, the address itself goes to the target register
Dispatch_LoadPutsAddress(regs, mem, instr, result) ==
    IF instr.op = OpHALT THEN [registers |-> regs, memory |-> mem]
    ELSE IF instr.op = OpSTORE THEN
        [registers |-> regs,
         memory |-> MemPut(mem, result, RegGet(regs, instr.reg_target))]
    ELSE [registers |-> RegPut(regs, instr.reg_target, result), memory |-> mem]

\* variant: the LOAD branch also writes the target register to the address
Dispatch_LoadWritesMemory(regs, mem, instr, result) ==
    IF instr.op = OpHALT THEN [registers |-> regs, memory |-> mem]
    ELSE IF instr.op = OpLOAD THEN
        [registers |-> RegPut(regs, instr.reg_target, MemGet(mem, result)),
         memory |-> MemPut(mem, result, RegGet(regs, instr.reg_target))]
    ELSE IF instr.op = OpSTORE THEN
        [registers |-> regs,
         memory |-> MemPut(mem, result, RegGet(regs, instr.reg_target))]
    ELSE [registers |-> RegPut(regs, instr.reg_target, result), memory |-> mem]

\* the if/elif/else on instr.op, entered with the program counter advanced
Dispatch(regs, mem, instr, result) ==
    IF instr.op = OpHALT THEN [registers |-> regs, memory |-> mem]
    ELSE IF instr.op = OpLOAD THEN
        [registers |-> RegPut(regs, instr.reg_target, MemGet(mem, result)),
         memory |-> mem]
    ELSE IF instr.op = OpSTORE THEN
        [registers |-> regs,
         memory |-> MemPut(mem, result, RegGet(regs, instr.reg_target))]
    ELSE [registers |-> RegPut(regs, instr.reg_target, result), memory |-> mem]

\* variant: self.condition = new_cond is missing
Execute_KeepsCondition(regs, mem, cond, hal, instr) ==
    LET out == ALU_exec(instr.op, LeftOperand(regs, instr),
                        RightOperand(regs, instr))
        d == Dispatch(AdvancePC(regs), mem, instr, out.result)
    IN  [registers |-> d.registers, memory |-> d.memory,
         condition |-> cond,
         halted |-> HaltedAfter(hal, instr, out.flag)]

\* variant: the program counter is advanced after the dispatch
Execute_AdvanceLast(regs, mem, cond, hal, instr) ==
    LET out == ALU_exec(instr.op, LeftOperand(regs, instr),
                        RightOperand(regs, instr))
        d == Dispatch(regs, mem, instr, out.result)
    IN  [registers |-> AdvancePC(d.registers), memory |-> d.memory,
         condition |-> out.flag,
         halted |-> HaltedAfter(hal, instr, out.flag)]

\* variant: a fault ends the step at once, before the counter and the dispatch
Execute_FaultAborts(regs, mem, cond, hal, instr) ==
    LET out == ALU_exec(instr.op, LeftOperand(regs, instr),
                        RightOperand(regs, instr))
        d == Dispatch(AdvancePC(regs), mem, instr, out.result)
    IN  IF out.flag = CondV
        THEN [registers |-> regs, memory |-> mem, condition |-> out.flag,
              halted |-> TRUE]
        ELSE [registers |-> d.registers, memory |-> d.memory,
              condition |-> out.flag,
              halted |-> HaltedAfter(hal, instr, out.flag)]

\* the branch taken when the condition test passes
Execute(regs, mem, cond, hal, instr) ==
    LET l_operand == LeftOperand(regs, instr)
        r_operand == RightOperand(regs, instr)
        out == ALU_exec(instr.op, l_operand, r_operand)
        d == Dispatch(AdvancePC(regs), mem, instr, out.result)
    IN  [registers |-> d.registers, memory |-> d.memory,
         condition |-> out.flag,
         halted |-> HaltedAfter(hal, instr, out.flag)]

\* variant: a skipped instruction leaves the program counter where it was
Skip_NoAdvance(regs, mem, cond, hal) ==
    [registers |-> regs, memory |-> mem, condition |-> cond, halted |-> hal]

\* the else branch: only the program counter moves
Skip(regs, mem, cond, hal) ==
    [registers |-> AdvancePC(regs), memory |-> mem,
     condition |-> cond, halted |-> hal]

\* one call of step on the CPU state (regs, mem, cond, hal)
step(regs, mem, cond, hal) ==
    LET instr == decode(Fetch(regs, mem).instr_addr)
    IN  IF ConditionTest(cond, instr) # 0
        THEN Execute(regs, mem, cond, hal, instr)
        ELSE Skip(regs, mem, cond, hal)

\* the ALU call made by a step that passes its test
StepAluCall(regs, instr) ==
    LET l_operand == LeftOperand(regs, instr)
        r_operand == RightOperand(regs, instr)
    IN  [op |-> instr.op, in1 |-> l_operand, in2 |-> r_operand,
         out |-> ALU_exec(instr.op, l_operand, r_operand)]

\* steps the model follows: the fetch and the access stay inside the modelled
\* memory and the arithmetic inside the modelled range
StepInModel(regs, mem, cond) ==
    /\ RegGet(regs, PC) \in Addrs
    /\ LET instr == decode(Fetch(regs, mem).instr_addr)
       IN  ConditionTest(cond, instr) # 0 =>
             /\ Abs(RegGet(regs, instr.reg_src2)) <= AddLimit
             /\ InArithRange(instr.op, LeftOperand(regs, instr),
                             RightOperand(regs, instr))
             /\ instr.op \in {OpLOAD, OpSTORE} =>
                  ALU_exec(instr.op, LeftOperand(regs, instr),
                           RightOperand(regs, instr)).result \in Addrs

----------------------------------------------------------------------------
(* The programs loaded before the CPU is used *)

ProgInstrs ==
    { Instr(OpADD, CondALWAYS, 1, 0, 0, 5),
      Instr(OpADD, CondALWAYS, 1, 0, 0, -3),
      Instr(OpHALT, CondALWAYS, 0, 0, 0, 0),
      Instr(OpHALT, CondZ, 0, 0, 0, 0),
      Instr(OpSTORE, CondALWAYS, 1, 0, 0, 2),
      Instr(OpLOAD, CondALWAYS, 2, 0, 0, 2),
      Instr(OpDIV, CondALWAYS, 2, 1, 2, 0),
      Instr(OpDIV, CondM + CondZ, PC, 1, 2, 0),
      Instr(OpSTORE, CondALWAYS, PC, 0, 0, 2),
      Instr(OpLOAD, CondP, 0, 0, 0, 2),
      Instr(OpMUL, CondV, 0, 1, 2, 3) }

ProgWords == { encode(i) : i \in ProgInstrs }

\* the programs loaded: every pair of instructions of the menu
Programs == { <<w1, w2>> : w1 \in ProgWords, w2 \in ProgWords }

\* memory with program p at addresses b .. b+Len(p)-1 and 0 elsewhere
LoadAt(b, p) ==
    [a \in Addrs |-> IF a >= b /\ a < b + Len(p) THEN p[a - b + 1] ELSE 0]

InitMemories ==
    { LoadAt(b, p) : b \in { a \in Addrs : a + 1 \in Addrs }, p \in Programs }

----------------------------------------------------------------------------
(* letter_bag.py: words are sequences of one-character strings *)

Letters == {"a", "b", "A", "B"}

\* str.isalpha and str.lower on one character
IsAlpha(ch) == ch \in Letters
Lower(ch) == IF ch = "A" THEN "a" ELSE IF ch = "B" THEN "b" ELSE ch

\* str.strip: leading and trailing blanks removed
strip(word) ==
    LET idx == { i \in 1..Len(word) : word[i] # " " }
        lo == CHOOSE i \in idx : \A j \in idx : i <= j
        hi == CHOOSE i \in idx : \A j \in idx : i >= j
    IN  IF idx = {} THEN <<>> ELSE SubSeq(word, lo, hi)

\* normalize(phrase): the letters only, lowered, in order
normalize(phrase) ==
    LET alpha == SelectSeq(phrase, IsAlpha)
    IN  [i \in 1..Len(alpha) |-> Lower(alpha[i])]

\* LetterBag.__init__: word, length and the dict letters (keys = its domain)
LetterBag(word) ==
    LET w == strip(word)
        normal == normalize(w)
    IN  [word |-> w,
         length |-> Len(normal),
         letters |-> [ch \in { normal[i] : i \in 1..Len(normal) } |->
                        Cardinality({ i \in 1..Len(normal) : normal[i] = ch })]]

\* LetterBag.contains
contains(self, other) ==
    \A letter \in DOMAIN other.letters :
        /\ letter \in DOMAIN self.letters
        /\ self.letters[letter] >= other.letters[letter]

\* variant: copy_.letters = self.letters, the dict shared with the receiver
copy_Aliased(self) ==
    [bag |-> [word |-> self.word, letters |-> self.letters, length |-> self.length],
     aliased |-> TRUE]

\* LetterBag.copy: a new bag with its own copy of the dict
copy(self) ==
    [bag |-> [word |-> self.word, letters |-> self.letters, length |-> self.length],
     aliased |-> FALSE]

\* LetterBag.take: whether the assert fails, the bag returned, and the receiver
\* and the argument as the call leaves them
take(self, other) ==
    LET c == copy(self)
        asserted == \A key \in DOMAIN other.letters :
                        /\ key \in DOMAIN c.bag.letters
                        /\ c.bag.letters[key] >= other.letters[key]
        reduced == [k \in DOMAIN c.bag.letters |->
                      IF k \in DOMAIN other.letters
                      THEN c.bag.letters[k] - other.letters[k]
                      ELSE c.bag.letters[k]]
    IN  IF ~asserted
        THEN [raised |-> TRUE, bag |-> c.bag, self |-> self, other |-> other]
        ELSE [raised |-> FALSE,
              bag |-> [word |-> c.bag.word, letters |-> reduced,
                       length |-> c.bag.length - other.length],
              self |-> IF c.aliased THEN [self EXCEPT !.letters = reduced]
                       ELSE self,
              other |-> other]

----------------------------------------------------------------------------
(* anagram.py: search *)

\* " ".join(words)
RECURSIVE Join(_)
Join(words) ==
    IF Len(words) = 0 THEN <<>>
    ELSE IF Len(words) = 1 THEN words[1]
    ELSE words[1] \o <<" ">> \o Join(Tail(words))

RECURSIVE search_loop(_, _, _, _, _, _)
RECURSIVE search_rec(_, _, _, _, _, _)

\* variant: the phrase is appended whether or not letters remain
search_loop_Partial(c, letters, phrase, result, candidates, limit) ==
    IF c > Len(candidates) THEN result
    ELSE IF contains(letters, candidates[c])
    THEN LET remaining == take(letters, candidates[c]).bag
             extend_phrase == Append(phrase, candidates[c].word)
             after == search_rec(remaining, c + 1, extend_phrase,
                                 Append(result, Join(extend_phrase)),
                                 candidates, limit)
         IN  search_loop(c + 1, letters, phrase, after, candidates, limit)
    ELSE search_loop(c + 1, letters, phrase, result, candidates, limit)

\* the nested _search and its for loop: result is the list shared by all
\* calls, returned as it stands when the call ends; positions count from 1
search_loop(c, letters, phrase, result, candidates, limit) ==
    IF c > Len(candidates) THEN result
    ELSE IF contains(letters, candidates[c])
    THEN LET remaining == take(letters, candidates[c]).bag
             extend_phrase == Append(phrase, candidates[c].word)
             after == IF remaining.length = 0
                      THEN Append(result, Join(extend_phrase))
                      ELSE search_rec(remaining, c + 1, extend_phrase,
                                      result, candidates, limit)
         IN  search_loop(c + 1, letters, phrase, after, candidates, limit)
    ELSE search_loop(c + 1, letters, phrase, result, candidates, limit)

search_rec(letters, pos, phrase, result, candidates, limit) ==
    IF Len(result) > limit THEN result
    ELSE search_loop(pos, letters, phrase, result, candidates, limit)

\* search(letters, candidates, limit, seed): the list returned, or the
\* AssertionError of take when the seed's letters are not in the bag
search(letters, candidates, limit, seed) ==
    IF Len(seed) # 0
    THEN LET t == take(letters, LetterBag(seed))
         IN  IF t.raised THEN [raised |-> TRUE, result |-> <<>>]
             ELSE [raised |-> FALSE,
                   result |-> search_rec(t.bag, 1, <<seed>>, <<>>,
                                         candidates, limit)]
    ELSE [raised |-> FALSE,
          result |-> search_rec(letters, 1, <<>>, <<>>, candidates, limit)]

----------------------------------------------------------------------------
(* The state machine *)

NoInstr == Instr(OpHALT, CondNEVER, 0, 0, 0, 0)

NoAluCall ==
    [op |-> OpHALT, in1 |-> 0, in2 |-> 0, called |-> FALSE,
     out |-> [raised |-> FALSE, result |-> 0, flag |-> CondZ]]

\* a call on the CPU: its name, the state it starts from, its arguments and,
\* for a step, the decoded instruction and the outcome of the condition test
Call(name, passed, instr, arg) ==
    [call |-> name,
     pre |-> Snapshot(registers, memory, condition, halted),
     passed |-> passed, instr |-> instr, arg |-> arg]

EmptyBag == LetterBag(<<>>)

NoBagCall ==
    [kind |-> "none", done |-> FALSE, self |-> EmptyBag, other |-> EmptyBag,
     candidates |-> <<>>, limit |-> 0, seed |-> <<>>,
     out |-> [raised |-> FALSE, result |-> <<>>, bag |-> EmptyBag,
              self |-> EmptyBag, other |-> EmptyBag]]

NoCall == [call |-> "none",
           pre |-> Snapshot([i \in RegIdx |-> 0], [a \in Addrs |-> 0],
                            CondALWAYS, FALSE),
           passed |-> FALSE, instr |-> NoInstr, arg |-> <<0, 0>>]

\* CPU.__init__, with the program already in the attached memory
Init ==
    /\ registers = [i \in RegIdx |-> 0]
    /\ memory \in InitMemories
    /\ condition = CondALWAYS
    /\ halted = FALSE
    /\ inRun = FALSE
    /\ step_count = 0
    /\ notified = <<>>
    /\ alu = NoAluCall
    /\ last = [call |-> "init",
               pre |-> Snapshot([i \in RegIdx |-> 0], memory, CondALWAYS, FALSE),
               passed |-> FALSE, instr |-> NoInstr, arg |-> <<0, 0>>]
    /\ prev = NoCall
    /\ lb = NoBagCall

\* the state change of one call of step, shared by a direct call and run's loop
StepEffect ==
    LET instr == decode(Fetch(registers, memory).instr_addr)
        passed == ConditionTest(condition, instr) # 0
        new == step(registers, memory, condition, halted)
    IN  /\ StepInModel(registers, memory, condition)
        /\ registers' = new.registers
        /\ memory' = new.memory
        /\ condition' = new.condition
        /\ halted' = new.halted
        /\ notified' = <<StepEvent(registers, memory, condition, halted)>>
        /\ alu' = IF passed
                  THEN [called |-> TRUE] @@ StepAluCall(registers, instr)
                  ELSE alu
        /\ last' = Call("step", passed, instr, <<0, 0>>)
        /\ prev' = last

\* a test harness puts a value into a register of the fresh CPU
Put(r, v) ==
    /\ ~inRun
    /\ last.call = "init"
    /\ registers' = RegPut(registers, r, v)
    /\ last' = Call("put", FALSE, NoInstr, <<r, v>>)
    /\ prev' = last
    /\ UNCHANGED <<memory, condition, halted, inRun, step_count, notified, alu, lb>>

\* cpu.step() called directly
DirectStep ==
    /\ ~inRun
    /\ StepEffect
    /\ UNCHANGED <<inRun, step_count, lb>>

\* variant: self.halted = False is missing
RunBegin_NoReset(from_addr) ==
    /\ ~inRun
    /\ registers' = RegPut(registers, PC, from_addr)
    /\ step_count' = 0
    /\ inRun' = TRUE
    /\ last' = Call("run", FALSE, NoInstr, <<from_addr, 0>>)
    /\ prev' = last
    /\ UNCHANGED <<memory, condition, halted, notified, alu, lb>>

\* variant: run also puts the condition back to its initial value
RunBegin_ResetsCondition(from_addr) ==
    /\ ~inRun
    /\ halted' = FALSE
    /\ registers' = RegPut(registers, PC, from_addr)
    /\ condition' = CondALWAYS
    /\ step_count' = 0
    /\ inRun' = TRUE
    /\ last' = Call("run", FALSE, NoInstr, <<from_addr, 0>>)
    /\ prev' = last
    /\ UNCHANGED <<memory, notified, alu, lb>>

\* cpu.run(from_addr): the three statements before the loop
RunBegin(from_addr) ==
    /\ ~inRun
    /\ halted' = FALSE
    /\ registers' = RegPut(registers, PC, from_addr)
    /\ step_count' = 0
    /\ inRun' = TRUE
    /\ last' = Call("run", FALSE, NoInstr, <<from_addr, 0>>)
    /\ prev' = last
    /\ UNCHANGED <<memory, condition, notified, alu, lb>>

\* one iteration of the while loop of run
RunStep ==
    /\ inRun
    /\ ~halted
    /\ step_count < MaxSteps
    /\ StepEffect
    /\ step_count' = step_count + 1
    /\ UNCHANGED <<inRun, lb>>

\* the loop ends: run returns
RunReturn ==
    /\ inRun
    /\ halted
    /\ inRun' = FALSE
    /\ last' = Call("return", FALSE, NoInstr, <<step_count, 0>>)
    /\ prev' = last
    /\ UNCHANGED <<registers, memory, condition, halted, step_count, notified, alu,
                   lb>>

Next ==
    \/ \E r \in RegIdx, v \in PutVals : Put(r, v)
    \/ DirectStep
    \/ \E a \in Addrs : RunBegin(a)
    \/ RunStep
    \/ RunReturn

Spec == Init /\ [][Next]_vars

----------------------------------------------------------------------------
(* ALU.exec called on its own *)

\* every value of the 4-bit opcode field
AluOpCodes == 0 .. (Pow2(4) - 1)
Operands == (-MaxOperand) .. MaxOperand

InitALU ==
    /\ registers = [i \in RegIdx |-> 0]
    /\ memory = [a \in Addrs |-> 0]
    /\ condition = CondALWAYS
    /\ halted = FALSE
    /\ inRun = FALSE
    /\ step_count = 0
    /\ notified = <<>>
    /\ alu = NoAluCall
    /\ last = NoCall
    /\ prev = NoCall
    /\ lb = NoBagCall

\* alu.exec(op, in1, in2): nothing of the CPU is assigned
AluCall(op, in1, in2) ==
    /\ alu' = [called |-> TRUE, op |-> op, in1 |-> in1, in2 |-> in2,
               out |-> ALU_exec(op, in1, in2)]
    /\ UNCHANGED <<registers, memory, condition, halted, inRun, step_count,
                   notified, last, prev, lb>>

NextALU == \E op \in AluOpCodes, in1 \in Operands, in2 \in Operands :
               AluCall(op, in1, in2)

SpecALU == InitALU /\ [][NextALU]_vars

----------------------------------------------------------------------------
(* The anagram finder used on its own *)

SeqsUpTo(S, n) == UNION { [1..k -> S] : k \in 0..n }

\* phrases whose letters are searched, candidate words, seeds
BagPhrases == { <<"a", "b">>, <<"A", "'", "b", "a">>, <<"b", "a", "b">>, <<>> }
CandWords == { <<"a">>, <<"b">>, <<"a", "b">>, <<"B", "a", " ">>, <<>> }
Seeds == { <<>>, <<"a">>, <<" ">>, <<"b", "b">> }

BagCall(kind, self, candidates, limit, seed) ==
    [NoBagCall EXCEPT !.kind = kind, !.self = self, !.candidates = candidates,
                      !.limit = limit, !.seed = seed]

SearchInputs ==
    { BagCall("search", LetterBag(p), [i \in DOMAIN ws |-> LetterBag(ws[i])], n, sd) :
        p \in BagPhrases, ws \in SeqsUpTo(CandWords, MaxCands),
        n \in 0..MaxLimit, sd \in Seeds }

TakeInputs == { BagCall("take", LetterBag(p), <<>>, 0, <<>>) : p \in BagPhrases }

InitAnagram ==
    /\ registers = [i \in RegIdx |-> 0]
    /\ memory = [a \in Addrs |-> 0]
    /\ condition = CondALWAYS
    /\ halted = FALSE
    /\ inRun = FALSE
    /\ step_count = 0
    /\ notified = <<>>
    /\ alu = NoAluCall
    /\ last = NoCall
    /\ prev = NoCall
    /\ lb \in SearchInputs \cup TakeInputs

\* search(letters, candidates, limit, seed) on the inputs drawn
SearchCall ==
    /\ lb.kind = "search" /\ ~lb.done
    /\ LET r == search(lb.self, lb.candidates, lb.limit, lb.seed)
       IN  lb' = [lb EXCEPT !.done = TRUE, !.out.raised = r.raised,
                            !.out.result = r.result]
    /\ UNCHANGED <<registers, memory, condition, halted, inRun, step_count,
                   notified, alu, last, prev>>

\* receiver.take(LetterBag(w)), the receiver being the bag drawn or the bag
\* the previous take returned
TakeCall(w) ==
    /\ lb.kind = "take" /\ ~lb.out.raised
    /\ LET receiver == IF lb.done THEN lb.out.bag ELSE lb.self
           t == take(receiver, LetterBag(w))
       IN  lb' = [lb EXCEPT !.done = TRUE, !.self = receiver,
                            !.other = LetterBag(w), !.out.raised = t.raised,
                            !.out.bag = t.bag, !.out.self = t.self,
                            !.out.other = t.other]
    /\ UNCHANGED <<registers, memory, condition, halted, inRun, step_count,
                   notified, alu, last, prev>>

NextAnagram ==
    \/ SearchCall
    \/ \E w \in CandWords : TakeCall(w)

SpecAnagram == InitAnagram /\ [][NextAnagram]_vars

----------------------------------------------------------------------------
(* Vocabulary of the properties *)

\* the instruction a step call c fetched, decoded from the state it started in
FetchedInstr(c) == decode(MemGet(c.pre.memory, RegGet(c.pre.registers, PC)))

IsStep(c) == c.call = "step"

\* the condition test of step call c, from its starting state
TestPasses(c) == BitAnd4(c.pre.condition, FetchedInstr(c).cond) # 0

Executed(c, op) == IsStep(c) /\ TestPasses(c) /\ FetchedInstr(c).op = op

\* source1 + source2 + offset on the registers step call c started with
EffAddr(c) ==
    RegGet(c.pre.registers, FetchedInstr(c).reg_src1)
    + RegGet(c.pre.registers, FetchedInstr(c).reg_src2)
    + FetchedInstr(c).offset

PreReg(c, i) == RegGet(c.pre.registers, i)

----------------------------------------------------------------------------
(* C1: a step whose condition mask ANDed with the current condition is zero
   leaves registers 0..14, memory, condition and halted as they were and
   leaves register 15 one above its value before the step. *)
C1_SkippedStepFrame ==
    (IsStep(last) /\ ~TestPasses(last)) =>
        /\ \A i \in 0..14 : RegGet(registers, i) = PreReg(last, i)
        /\ memory = last.pre.memory
        /\ condition = last.pre.condition
        /\ halted = last.pre.halted
        /\ RegGet(registers, PC) = PreReg(last, PC) + 1

\* the spec's case: mask Zero met with condition Plus, registers not all zero
C1_Witness ==
    /\ IsStep(last) /\ ~TestPasses(last)
    /\ last.pre.condition = CondP
    /\ FetchedInstr(last).cond = CondZ
    /\ PreReg(last, 1) = 5

\* memory mem holds Add r1 <- r0 + r0 + k (always) at a and Halt (always) at a+1
C2Program(mem, a) ==
    /\ a \in Addrs /\ a + 1 \in Addrs
    /\ decode(mem[a]).op = OpADD /\ decode(mem[a]).cond = CondALWAYS
    /\ decode(mem[a]).reg_target = 1
    /\ decode(mem[a]).reg_src1 = 0 /\ decode(mem[a]).reg_src2 = 0
    /\ decode(mem[a + 1]).op = OpHALT /\ decode(mem[a + 1]).cond = CondALWAYS

(* C2: with Add r1 <- r0 + r0 + k (always) at address a and Halt (always) at
   a+1, run(a) from any prior state takes exactly two steps and ends halted
   with register 1 = k and the program counter = a+2. *)
C2_AddHaltRun ==
    /\ (inRun /\ last.call = "run" /\ C2Program(memory, last.arg[1])) =>
          (step_count = 0 /\ ~halted /\ ENABLED RunStep)
    /\ (inRun /\ IsStep(last) /\ prev.call = "run"
        /\ C2Program(prev.pre.memory, prev.arg[1])) =>
          (step_count = 1 /\ ~halted /\ ENABLED RunStep)
    /\ (inRun /\ IsStep(last) /\ IsStep(prev) /\ step_count = 2
        /\ C2Program(prev.pre.memory, PreReg(prev, PC))) =>
          /\ halted
          /\ ~ENABLED RunStep /\ ENABLED RunReturn
          /\ RegGet(registers, 1) = FetchedInstr(prev).offset
          /\ RegGet(registers, PC) = PreReg(prev, PC) + 2

\* a second run, from address 1, with k = -3 and a condition left by a run
C2_Witness ==
    /\ inRun /\ IsStep(last) /\ IsStep(prev) /\ step_count = 2
    /\ C2Program(prev.pre.memory, PreReg(prev, PC))
    /\ PreReg(prev, PC) = 1
    /\ FetchedInstr(prev).offset = -3
    /\ prev.pre.condition = CondZ
    /\ halted

\* the latest two calls: an executed Store, then an executed Load from the
\* same effective address into another register
StoreThenLoad ==
    /\ Executed(prev, OpSTORE) /\ Executed(last, OpLOAD)
    /\ EffAddr(prev) = EffAddr(last)
    /\ FetchedInstr(last).reg_target # FetchedInstr(prev).reg_target

(* C3 as claimed: an executed Store of register t (holding v when the Store
   step starts) to address A, followed by an executed Load from A into a
   register u other than t, leaves v in register u. *)
C3_RoundTripAsClaimed ==
    StoreThenLoad =>
        RegGet(registers, FetchedInstr(last).reg_target)
          = PreReg(prev, FetchedInstr(prev).reg_target)

(* C3: after such a Store and Load, register u holds v; except that u = 0
   still reads 0, and that a Store of register 15 writes v+1, the program
   counter already advanced, which is then what the Load brings back. *)
C3_RoundTrip ==
    StoreThenLoad =>
        LET t == FetchedInstr(prev).reg_target
            u == FetchedInstr(last).reg_target
            v == PreReg(prev, t)
        IN  RegGet(registers, u) =
              (IF u = 0 THEN 0 ELSE IF t = PC THEN v + 1 ELSE v)

C3_Witness ==
    /\ StoreThenLoad
    /\ FetchedInstr(prev).reg_target = 1
    /\ FetchedInstr(last).reg_target = 2
    /\ PreReg(prev, 1) = 3
    /\ RegGet(registers, 2) = 3

\* run is about to return: halted, no further step, the return enabled
RunEndsHere == halted /\ ~ENABLED RunStep /\ ENABLED RunReturn

(* C4 as claimed: in run, a step that fetches a Halt, or in which the ALU
   returns Fault, ends with halted true, and run takes no further step. *)
C4_FetchedHaltEndsRun ==
    (inRun /\ IsStep(last)
     /\ (FetchedInstr(last).op = OpHALT
         \/ (TestPasses(last) /\ alu.out.flag = CondV))) => RunEndsHere

(* C4: in run, a step that passes its condition test and either has opcode
   Halt or gets Fault from the ALU ends with halted true, and run returns
   without a further step; a Halt whose condition test fails is skipped and
   does not halt. *)
C4_ExecutedHaltOrFaultEndsRun ==
    (inRun /\ IsStep(last) /\ TestPasses(last)
     /\ (FetchedInstr(last).op = OpHALT \/ alu.out.flag = CondV)) => RunEndsHere

\* a division by zero inside run
C4_Witness ==
    /\ inRun /\ Executed(last, OpDIV)
    /\ alu.out.flag = CondV /\ alu.in2 = 0
    /\ ~last.pre.halted /\ halted

\* step call c passed its test with opcode Halt or with Fault from the ALU
HaltingStep(c) ==
    TestPasses(c) /\ (FetchedInstr(c).op = OpHALT \/ alu.out.flag = CondV)

(* C5: a step turns halted from false to true only if it passed its test and
   its opcode is Halt or the ALU returned Fault; inside run every other step
   leaves halted false and run does not return. *)
C5_NoPrematureHalt ==
    /\ (IsStep(last) /\ ~last.pre.halted /\ halted) => HaltingStep(last)
    /\ (inRun /\ IsStep(last) /\ ~HaltingStep(last)) =>
          (~halted /\ ~ENABLED RunReturn)

\* an executed division with a non-zero divisor inside run
C5_Witness ==
    /\ inRun /\ Executed(last, OpDIV)
    /\ alu.in2 # 0 /\ alu.out.flag # CondV
    /\ ~halted

(* C6: register 0 reads 0 in every reachable state, also after an executed
   instruction whose target is register 0; a put of v into a register r in
   1..15 followed by get returns v. *)
C6_ZeroRegister ==
    /\ RegGet(registers, 0) = 0
    /\ (last.call = "put" /\ last.arg[1] \in 1..15) =>
          RegGet(registers, last.arg[1]) = last.arg[2]

\* an executed Load of a non-zero word into register 0
C6_Witness ==
    /\ Executed(last, OpLOAD)
    /\ FetchedInstr(last).reg_target = 0
    /\ MemGet(last.pre.memory, EffAddr(last)) # 0
    /\ RegGet(registers, 0) = 0

(* C7: ALU.exec never raises: for every opcode value and operands it returns
   a result and a flag; for Divide by 0 and for an opcode outside its table
   it returns exactly (0, Fault). *)
C7_AluNeverRaises ==
    alu.called =>
        /\ ~alu.out.raised
        /\ alu.out.result \in Int
        /\ alu.out.flag \in RuntimeFlags
        /\ ((alu.op = OpDIV /\ alu.in2 = 0) \/ alu.op \notin TableOps) =>
              (alu.out.result = 0 /\ alu.out.flag = CondV)

C7_Witness ==
    /\ alu.called /\ alu.op = OpDIV /\ alu.in1 = -3 /\ alu.in2 = 0
    /\ alu.out.result = 0 /\ alu.out.flag = CondV

\* q is x/y rounded toward negative infinity
IsFloorQuotient(q, x, y) ==
    IF y > 0 THEN q * y <= x /\ x < q * y + y
    ELSE q * y >= x /\ x > q * y + y

Reference(op, x, y) ==
    IF op = OpADD \/ op = OpLOAD \/ op = OpSTORE THEN x + y
    ELSE IF op = OpSUB THEN x - y
    ELSE IF op = OpMUL THEN x * y
    ELSE IF op = OpDIV
    THEN CHOOSE q \in (-Abs(x) - 1) .. (Abs(x) + 1) : IsFloorQuotient(q, x, y)
    ELSE 0

(* C8: for operands not dividing by zero, ALU.exec returns x+y (Add, Load,
   Store), x-y, x*y, the quotient rounded toward negative infinity, or 0
   (Halt), with flag Zero, Minus or Plus by the sign of that result, and
   changes no state of the CPU. *)
C8_AluReference ==
    (alu.called /\ alu.op \in TableOps /\ ~(alu.op = OpDIV /\ alu.in2 = 0)) =>
        LET ref == Reference(alu.op, alu.in1, alu.in2)
        IN  /\ ~alu.out.raised
            /\ alu.out.result = ref
            /\ (ref = 0 => alu.out.flag = CondZ)
            /\ (ref < 0 => alu.out.flag = CondM)
            /\ (ref > 0 => alu.out.flag = CondP)
            /\ registers = [i \in RegIdx |-> 0]
            /\ memory = [a \in Addrs |-> 0]
            /\ condition = CondALWAYS /\ ~halted

\* -3 // 2 is -2, not -1
C8_Witness ==
    /\ alu.called /\ alu.op = OpDIV /\ alu.in1 = -3 /\ alu.in2 = 2
    /\ alu.out.result = -2 /\ alu.out.flag = CondM

(* C9 as claimed: in every reachable state the CPU's condition is one of
   Zero, Minus, Plus, Fault, never the always-true sentinel. *)
C9_ConditionIsRuntimeFlag == condition \in RuntimeFlags

(* C9: the condition is the always-true sentinel from construction until the
   first step that passes its condition test, and one of Zero, Minus, Plus,
   Fault in every state after that. *)
C9_ConditionValues ==
    IF alu.called THEN condition \in RuntimeFlags ELSE condition = CondALWAYS

\* the first executed step replaces the sentinel
C9_Witness ==
    /\ IsStep(last) /\ TestPasses(last)
    /\ last.pre.condition = CondALWAYS
    /\ condition = CondM

(* C10: every step call emits exactly one step-begin event, before any
   change of that step, whose pc_addr is the value register 15 held at the
   start of the step and whose instr_word is the memory word at that
   address. *)
C10_StepEventFields ==
    IsStep(last) =>
        /\ Len(notified) = 1
        /\ notified[1].subject = last.pre
        /\ notified[1].pc_addr = PreReg(last, PC)
        /\ notified[1].instr_word = MemGet(last.pre.memory, PreReg(last, PC))

----------------------------------------------------------------------------
(* The anagram finder *)

SearchReturned == lb.kind = "search" /\ lb.done /\ ~lb.out.raised

\* occurrences of the letter ch, in either case, in a string
LetterCount(word, ch) ==
    Cardinality({ i \in 1..Len(word) : IsAlpha(word[i]) /\ Lower(word[i]) = ch })

\* the count a bag holds for ch
BagCount(bag, ch) == IF ch \in DOMAIN bag.letters THEN bag.letters[ch] ELSE 0

LowerLetters == { Lower(ch) : ch \in Letters }

\* the members of a set of positions in increasing order
Ascending(S) ==
    CHOOSE f \in [1..Cardinality(S) -> S] :
        \A i, j \in 1..Cardinality(S) : i < j => f[i] < f[j]

RECURSIVE SumOf(_, _)
SumOf(f, S) ==
    IF S = {} THEN 0
    ELSE LET x == CHOOSE y \in S : TRUE IN f[x] + SumOf(f, S \ {x})

(* C11: for every letter bag, candidate list, seed and limit >= 0, the list
   search returns never holds more than limit phrases. *)
C11_ResultWithinLimit ==
    SearchReturned => Len(lb.out.result) <= lb.limit

(* C12: every phrase search returns is the seed (when non-empty) followed by
   the words of candidates at strictly increasing positions, joined by
   blanks, and for every letter the count in the seed plus the counts in
   those candidates equals the count in the input bag. *)
C12_PhrasesAreAnagrams ==
    SearchReturned =>
        \A k \in 1..Len(lb.out.result) :
            \E S \in SUBSET (1..Len(lb.candidates)) :
                LET pos == Ascending(S)
                    words == [i \in 1..Cardinality(S) |-> lb.candidates[pos[i]].word]
                    seeded == IF Len(lb.seed) # 0 THEN <<lb.seed>> ELSE <<>>
                IN  /\ lb.out.result[k] = Join(seeded \o words)
                    /\ \A ch \in LowerLetters :
                          LetterCount(lb.seed, ch)
                          + SumOf([i \in S |-> LetterCount(lb.candidates[i].word, ch)], S)
                          = BagCount(lb.self, ch)

\* the bag of "A'ba" with seed "a" and candidates a, b gives "a a b"
C12_Witness ==
    /\ SearchReturned
    /\ lb.seed = <<"a">> /\ Len(lb.candidates) = 2
    /\ lb.out.result = << <<"a", " ", "a", " ", "b">> >>

(* C13: take raises exactly when contains is false, that is when some
   letter of other is absent from the receiver or has a smaller count there;
   otherwise the bag returned has, for every letter, the receiver's count
   minus other's count, no negative count, and as length the receiver's
   length minus other's length, which is the sum of its counts; in both
   cases the receiver and other are as they were. *)
C13_TakeContract ==
    (lb.kind = "take" /\ lb.done) =>
        /\ lb.out.raised = ~contains(lb.self, lb.other)
        /\ lb.out.raised =
              (\E ch \in LowerLetters :
                   BagCount(lb.other, ch) > 0
                   /\ BagCount(lb.self, ch) < BagCount(lb.other, ch))
        /\ ~lb.out.raised =>
              /\ \A ch \in LowerLetters :
                    /\ BagCount(lb.out.bag, ch)
                         = BagCount(lb.self, ch) - BagCount(lb.other, ch)
                    /\ BagCount(lb.out.bag, ch) >= 0
              /\ lb.out.bag.length = lb.self.length - lb.other.length
              /\ lb.out.bag.length
                   = SumOf([ch \in LowerLetters |-> BagCount(lb.out.bag, ch)],
                           LowerLetters)
        /\ lb.out.self = lb.self
        /\ lb.out.other = lb.other

\* a take that removes some letters and leaves some
C13_Witness ==
    /\ lb.kind = "take" /\ lb.done /\ ~lb.out.raised
    /\ lb.other.length > 0
    /\ lb.out.bag.length > 0

----------------------------------------------------------------------------
(* The order of the program-counter increment and the opcode's effect *)

\* step call c passed its test with an opcode whose branch puts a value into
\* the target register, and the target is register 15
WritesPC(c) ==
    /\ IsStep(c) /\ TestPasses(c)
    /\ FetchedInstr(c).op \notin {OpHALT, OpSTORE}
    /\ FetchedInstr(c).reg_target = PC

\* the value that branch puts: the word loaded, or the ALU's result
WrittenValue(c) ==
    IF FetchedInstr(c).op = OpLOAD THEN MemGet(c.pre.memory, EffAddr(c))
    ELSE alu.out.result

StoresPC(c) == Executed(c, OpSTORE) /\ FetchedInstr(c).reg_target = PC

(* C14 as claimed: the increment of register 15 comes last: a step that
   does not write register 15 ends with PC = PC-before + 1, an executed
   Add, Subtract, Multiply, Divide or Load with target 15 that writes r ends
   with PC = r + 1, and an executed Store of register 15 writes the PC value
   the instruction was fetched from. *)
C14_IncrementLast ==
    IsStep(last) =>
        /\ ~WritesPC(last) => RegGet(registers, PC) = PreReg(last, PC) + 1
        /\ WritesPC(last) => RegGet(registers, PC) = WrittenValue(last) + 1
        /\ StoresPC(last) => MemGet(memory, EffAddr(last)) = PreReg(last, PC)

(* C14: the increment of register 15 comes before the opcode's effect: a
   step that does not write register 15 ends with PC = PC-before + 1, an
   executed Add, Subtract, Multiply, Divide or Load with target 15 that
   writes r ends with PC = r, and an executed Store of register 15 writes
   PC-before + 1. *)
C14_IncrementBeforeEffect ==
    IsStep(last) =>
        /\ ~WritesPC(last) => RegGet(registers, PC) = PreReg(last, PC) + 1
        /\ WritesPC(last) => RegGet(registers, PC) = WrittenValue(last)
        /\ StoresPC(last) =>
              MemGet(memory, EffAddr(last)) = PreReg(last, PC) + 1

\* Divide with target 15 fetched from address 1 writes -3 // 3
C14_Witness ==
    /\ WritesPC(last) /\ FetchedInstr(last).op = OpDIV
    /\ alu.in1 = -3 /\ alu.in2 = 3
    /\ PreReg(last, PC) = 1
    /\ RegGet(registers, PC) = -1

\* step call c passed its test with opcode Divide and a right operand of 0
FaultingDivide(c) ==
    /\ Executed(c, OpDIV)
    /\ PreReg(c, FetchedInstr(c).reg_src2) + FetchedInstr(c).offset = 0

(* C15 as claimed: an executed Divide whose right operand is 0 does not
   raise, and leaves condition Fault, halted true, 0 in the target register
   (unless the target is register 0 or 15) and the program counter advanced
   by 1. *)
C15_FaultStepAdvances ==
    FaultingDivide(last) =>
        /\ ~alu.out.raised
        /\ condition = CondV /\ halted
        /\ FetchedInstr(last).reg_target \notin {0, PC} =>
              RegGet(registers, FetchedInstr(last).reg_target) = 0
        /\ RegGet(registers, PC) = PreReg(last, PC) + 1

(* C15: an executed Divide whose right operand is 0 does not raise, and
   leaves condition Fault, halted true, 0 in the target register and the
   program counter advanced by 1; when the target is register 15 the 0
   written replaces the advanced program counter. *)
C15_FaultAbsorbed ==
    FaultingDivide(last) =>
        /\ ~alu.out.raised
        /\ condition = CondV /\ halted
        /\ RegGet(registers, FetchedInstr(last).reg_target) = 0
        /\ RegGet(registers, PC) =
              (IF FetchedInstr(last).reg_target = PC THEN 0
               ELSE PreReg(last, PC) + 1)

\* -3 divided by 0 into register 2, by the instruction at address 1
C15_Witness ==
    /\ FaultingDivide(last)
    /\ FetchedInstr(last).reg_target = 2
    /\ PreReg(last, 1) = -3 /\ PreReg(last, PC) = 1
    /\ ~last.pre.halted /\ halted
    /\ RegGet(registers, PC) = 2

(* C16: once halted is true no step call, executed or skipped, sets it back
   to false; only the beginning of run does. *)
C16_HaltedAbsorbing ==
    /\ (IsStep(last) /\ last.pre.halted) => halted
    /\ (last.pre.halted /\ ~halted) => last.call = "run"

\* an executed Add on a halted CPU
C16_Witness ==
    /\ Executed(last, OpADD)
    /\ last.pre.halted /\ halted
    /\ condition = CondP

(* C17: run(from_addr), from any state earlier runs left, begins with halted
   false and register 15 = from_addr, so that its first step starts there
   and fetches the memory word at from_addr; run returns only with halted
   true. *)
C17_RunRestarts ==
    /\ last.call = "run" =>
          /\ ~halted /\ inRun /\ step_count = 0
          /\ RegGet(registers, PC) = last.arg[1]
    /\ (IsStep(last) /\ prev.call = "run") =>
          /\ ~last.pre.halted
          /\ PreReg(last, PC) = prev.arg[1]
          /\ last.instr = decode(MemGet(prev.pre.memory, prev.arg[1]))
    /\ last.call = "return" => (halted /\ last.pre.halted)

\* the first step of a run begun on a halted CPU whose counter was elsewhere
C17_Witness ==
    /\ IsStep(last) /\ prev.call = "run"
    /\ prev.pre.halted
    /\ PreReg(prev, PC) = 2 /\ prev.arg[1] = 0
    /\ TestPasses(last)

\* the flag for the sign of n
SignFlag(n) == IF n = 0 THEN CondZ ELSE IF n < 0 THEN CondM ELSE CondP

(* C18: after a step that passes its condition test, condition is the flag
   the ALU returned in that step for the opcode, the source1 value and the
   source2 value + offset, all read at the start of the step: the sign of
   the effective address for Load and Store, Zero for Halt, Fault for a
   faulting operation. *)
C18_ConditionFromAlu ==
    (IsStep(last) /\ TestPasses(last)) =>
        LET i == FetchedInstr(last)
            x == PreReg(last, i.reg_src1)
            y == PreReg(last, i.reg_src2) + i.offset
        IN  /\ alu.op = i.op /\ alu.in1 = x /\ alu.in2 = y
            /\ alu.out = ALU_exec(i.op, x, y)
            /\ condition = alu.out.flag
            /\ i.op \in {OpLOAD, OpSTORE} => condition = SignFlag(EffAddr(last))
            /\ i.op = OpHALT => condition = CondZ
            /\ ((i.op = OpDIV /\ y = 0) \/ i.op \notin TableOps) =>
                  condition = CondV

\* a Load of the word 0 from address 2 leaves Plus
C18_Witness ==
    /\ Executed(last, OpLOAD)
    /\ EffAddr(last) = 2
    /\ MemGet(last.pre.memory, 2) = 0
    /\ condition = CondP

(* C19: the beginning of run leaves condition, registers 1..14 and memory
   as they were, so the first instruction of a second run is tested against
   the condition the previous run left, and is skipped when its mask does
   not include that flag. *)
C19_RunKeepsCondition ==
    /\ last.call = "run" =>
          /\ condition = last.pre.condition
          /\ \A i \in 1..14 : RegGet(registers, i) = PreReg(last, i)
          /\ memory = last.pre.memory
    /\ (IsStep(last) /\ prev.call = "run") =>
          /\ last.pre.condition = prev.pre.condition
          /\ last.passed =
                (BitAnd4(prev.pre.condition, FetchedInstr(last).cond) # 0)
          /\ ~last.passed =>
                /\ condition = prev.pre.condition
                /\ RegGet(registers, PC) = prev.arg[1] + 1

\* Zero left by an executed Halt; the second run starts at a Load with mask Plus
C19_Witness ==
    /\ IsStep(last) /\ prev.call = "run"
    /\ prev.pre.halted /\ prev.pre.condition = CondZ
    /\ FetchedInstr(last).op = OpLOAD /\ FetchedInstr(last).cond = CondP
    /\ ~last.passed
    /\ condition = CondZ

(* C20: a step changes memory only if it passed its condition test with
   opcode Store, and then at most the cell at source1 + source2 + offset;
   every other step, skipped or executed, leaves all of memory as it was. *)
C20_OnlyStoreWritesMemory ==
    IsStep(last) =>
        /\ ~Executed(last, OpSTORE) => memory = last.pre.memory
        /\ Executed(last, OpSTORE) =>
              \A a \in Addrs \ {EffAddr(last)} :
                  MemGet(memory, a) = MemGet(last.pre.memory, a)

\* a Store of 3 to address 2, which held 0
C20_Witness ==
    /\ Executed(last, OpSTORE)
    /\ EffAddr(last) = 2
    /\ MemGet(last.pre.memory, 2) = 0
    /\ MemGet(memory, 2) = 3
    /\ \A a \in Addrs \ {2} : MemGet(memory, a) = MemGet(last.pre.memory, a)

====
